---- MODULE Spec2Model ----
(***************************************************************************)
(* Model of EmployeeDatabase (employee_database.py): a pickle-backed       *)
(* employee store with a ".bak" sibling file.  Every public method is one  *)
(* atomic action (the class is single-threaded and synchronous).  The two  *)
(* files are modelled by their decoded content; strings are sequences of   *)
(* one-character strings so that lower(), split() and isdigit() are        *)
(* computed as Python computes them.                                       *)
(***************************************************************************)
EXTENDS Integers, Sequences, FiniteSets, TLC

(* ------------------------------ bounds --------------------------------- *)
\* number of distinct identifiers uuid.uuid4() can hand out in one run
MaxIds == 3
\* number of nested _load_data frames the interpreter allows before it
\* raises RecursionError (stands for sys.getrecursionlimit() / 2)
MaxDepth == 3

IDs == 1..MaxIds

(* ------------------------------ strings -------------------------------- *)
Uppers == <<"A","B","C","D","E","F","G","H","I","J","K","L","M",
            "N","O","P","Q","R","S","T","U","V","W","X","Y","Z">>
Lowers == <<"a","b","c","d","e","f","g","h","i","j","k","l","m",
            "n","o","p","q","r","s","t","u","v","w","x","y","z">>
Digits == <<"0","1","2","3","4","5","6","7","8","9">>

\* str.lower() on one character
LowerChar(c) ==
    IF \E i \in 1..26 : Uppers[i] = c
    THEN Lowers[CHOOSE i \in 1..26 : Uppers[i] = c]
    ELSE c

\* str.lower()
Lower(s) == [i \in 1..Len(s) |-> LowerChar(s[i])]

IsDigitChar(c) == \E i \in 1..10 : Digits[i] = c

DigitVal(c) == (CHOOSE i \in 1..10 : Digits[i] = c) - 1

\* str.isdigit(): non-empty and made of digits only
IsDigit(s) == Len(s) > 0 /\ \A i \in 1..Len(s) : IsDigitChar(s[i])

\* int(s) for a string of digits
RECURSIVE ParseInt(_)
ParseInt(s) ==
    IF Len(s) = 0 THEN 0
    ELSE 10 * ParseInt(SubSeq(s, 1, Len(s) - 1)) + DigitVal(s[Len(s)])

\* str(n) for a natural number
RECURSIVE IntToStr(_)
IntToStr(n) ==
    IF n < 10 THEN <<Digits[n + 1]>>
    ELSE IntToStr(n \div 10) \o <<Digits[(n % 10) + 1]>>

\* zero-padded decimal of width w, as strftime's %m and %d print it
RECURSIVE Pad(_, _)
Pad(s, w) == IF Len(s) >= w THEN s ELSE Pad(<<"0">> \o s, w)

\* does sep occur in s at position i
MatchAt(s, sep, i) ==
    /\ i + Len(sep) - 1 <= Len(s)
    /\ \A j \in 1..Len(sep) : s[i + j - 1] = sep[j]

\* s.split(sep)[-1]: what follows the last occurrence of sep found in a
\* left-to-right scan, the whole of s when sep does not occur
RECURSIVE SplitLastFrom(_, _, _, _)
SplitLastFrom(s, sep, i, start) ==
    IF i > Len(s) THEN SubSeq(s, start, Len(s))
    ELSE IF MatchAt(s, sep, i)
         THEN SplitLastFrom(s, sep, i + Len(sep), i + Len(sep))
         ELSE SplitLastFrom(s, sep, i + 1, start)

SplitLast(s, sep) == SplitLastFrom(s, sep, 1, 1)

\* s.split(sep)[0]: what precedes the first occurrence of sep
SplitFirst(s, sep) ==
    IF \E i \in 1..Len(s) : MatchAt(s, sep, i)
    THEN LET k == CHOOSE i \in 1..Len(s) :
                     /\ MatchAt(s, sep, i)
                     /\ \A j \in 1..(i - 1) : ~MatchAt(s, sep, j)
         IN SubSeq(s, 1, k - 1)
    ELSE s

(* ------------------------------- dates --------------------------------- *)
\* datetime.strftime("%Y-%m-%d"): the time of day is dropped
Strftime(d) ==
    Pad(IntToStr(d.year), 4) \o <<"-">> \o Pad(IntToStr(d.month), 2)
        \o <<"-">> \o Pad(IntToStr(d.day), 2)

\* strptime reading the day before the month ("%Y-%d-%m")
Strptime_day_first(s) ==
    [year  |-> ParseInt(SubSeq(s, 1, 4)),
     month |-> ParseInt(SubSeq(s, 9, 10)),
     day   |-> ParseInt(SubSeq(s, 6, 7)),
     secs  |-> 0]

\* datetime.strptime(s, "%Y-%m-%d"): midnight of that day
Strptime(s) ==
    [year  |-> ParseInt(SubSeq(s, 1, 4)),
     month |-> ParseInt(SubSeq(s, 6, 7)),
     day   |-> ParseInt(SubSeq(s, 9, 10)),
     secs  |-> 0]

\* calendar.monthrange(year, month)[1]
DaysInMonth(year, month) ==
    IF month = 2
    THEN IF (year % 4 = 0 /\ year % 100 # 0) \/ year % 400 = 0 THEN 29 ELSE 28
    ELSE IF month \in {4, 6, 9, 11} THEN 30 ELSE 31

\* datetime.now() as the runs of the model see it
Now == [year |-> 2026, month |-> 11, day |-> 1, secs |-> 34200]

(* --------------------------- normalize_string -------------------------- *)
\* unidecode() leaving every character as it is
Unidecode_unfolded(c) == <<c>>

\* unidecode() on one character: ASCII is kept, an accented letter is folded
\* to its base letter
Unidecode(c) ==
    CASE c = "e'" -> <<"e">>
      [] c = "u:" -> <<"u">>
      [] OTHER    -> <<c>>

RECURSIVE UnidecodeStr(_)
UnidecodeStr(s) ==
    IF Len(s) = 0 THEN <<>>
    ELSE Unidecode(Head(s)) \o UnidecodeStr(Tail(s))

\* re.sub(r'[^a-z]', '', s)
RECURSIVE KeepLowerAlpha(_)
KeepLowerAlpha(s) ==
    IF Len(s) = 0 THEN <<>>
    ELSE (IF \E i \in 1..26 : Lowers[i] = Head(s) THEN <<Head(s)>> ELSE <<>>)
             \o KeepLowerAlpha(Tail(s))

normalize_string(str) == KeepLowerAlpha(Lower(UnidecodeStr(str)))

(* ------------------------------ file content --------------------------- *)
NoEmployees == [i \in {} |-> i]

NoMetadata ==
    [company_name |-> <<>>, email_suffix |-> <<>>, creation_date |-> <<>>,
     max_employees |-> 0, total_employees |-> 0]

\* What a file holds, by what pickle.load makes of it:
\*   absent     no file at the path
\*   empty      a file of length zero
\*   truncated  bytes on which pk.load raises EOFError or UnpicklingError
\*   garbage    bytes on which pk.load raises another exception
\*   badformat  a pickled dict without 'metadata' or without 'employees'
\*   valid      a pickled {'metadata': ..., 'employees': ...}
FileOf(kind) == [kind |-> kind, metadata |-> NoMetadata, employees |-> NoEmployees]

Snapshot(metadata, emps) ==
    [kind |-> "valid", metadata |-> metadata, employees |-> emps]

\* the object's attributes and the two files, threaded through the methods;
\* restores counts the copies of the backup over the primary file and
\* written collects the snapshots pickled into the primary file
generate_metadata(s) ==
    [company_name    |-> s.COMPANY_NAME,
     email_suffix    |-> s.EMAIL_SUFFIX,
     creation_date   |-> Strftime(s.CREATION_DATE),
     max_employees   |-> s.MAX_EMPLOYEES,
     total_employees |-> Cardinality(DOMAIN s.employees)]

\* _load_data lines 135-147: pickle a snapshot with no employees
InitializeEmpty(s) ==
    LET data == Snapshot(generate_metadata(s), NoEmployees)
    IN [s EXCEPT !.file = data, !.written = @ \cup {data}]

\* Where the interpreter's RecursionError strikes when _load_data and
\* restore_from_backup keep calling each other:
\*   "load"  on entering the _load_data frame past the limit
\*   "copy"  inside shutil.copy2 of the deepest restore_from_backup, after
\*           the destination was opened for writing
Strikes == {"load", "copy"}

RECURSIVE LoadData(_, _, _)
RECURSIVE RestoreFromBackup(_, _, _)

\* what is recorded of one call of restore_from_backup: whether the backup
\* file existed, whether its copy over the primary file was made, and the
\* value returned
RestoreCall(existed, copied, result) ==
    [existed |-> existed, copied |-> copied, result |-> result]

\* restore_from_backup returning, the call recorded in restoreCalls
Restored(s, existed, copied, result) ==
    [st |-> [s EXCEPT !.restoreCalls = @ \cup {RestoreCall(existed, copied, result)}],
     result |-> result]

\* restore_from_backup, called with depth _load_data frames on the stack.
\* Returns the state and the boolean result; every exception is caught.
RestoreFromBackup(s, depth, strike) ==
    IF s.bak.kind # "absent"
    THEN IF strike = "copy" /\ depth >= MaxDepth
         THEN Restored([s EXCEPT !.file = FileOf("empty")], TRUE, FALSE, FALSE)
         ELSE LET copied == [s EXCEPT !.file = s.bak, !.restores = @ + 1]
                  r == LoadData(copied, depth + 1, strike)
              IN IF r.raised
                 THEN Restored(r.st, TRUE, TRUE, FALSE)
                 ELSE Restored(r.st, TRUE, TRUE, TRUE)
    ELSE Restored(s, FALSE, FALSE, FALSE)

\* _load_data going to the backup on ValueError as well (ValueError listed
\* with EOFError and UnpicklingError)
LoadData_restoring_on_ValueError(s, depth, strike) ==
    IF depth > MaxDepth
    THEN [st |-> s, raised |-> TRUE]
    ELSE
      LET backed == IF s.file.kind # "absent" THEN [s EXCEPT !.bak = s.file] ELSE s
      IN CASE backed.file.kind = "valid" ->
                [st |-> [backed EXCEPT
                            !.CREATION_DATE = Strptime(backed.file.metadata.creation_date),
                            !.COMPANY_NAME  = backed.file.metadata.company_name,
                            !.EMAIL_SUFFIX  = backed.file.metadata.email_suffix,
                            !.MAX_EMPLOYEES = backed.file.metadata.max_employees,
                            !.employees     = backed.file.employees],
                 raised |-> FALSE]
           [] backed.file.kind \in {"truncated", "badformat"} ->
                LET r == RestoreFromBackup(backed, depth, strike)
                IN IF r.result
                   THEN [st |-> r.st, raised |-> FALSE]
                   ELSE [st |-> InitializeEmpty(r.st), raised |-> FALSE]
           [] OTHER ->
                [st |-> InitializeEmpty(backed), raised |-> FALSE]

\* _load_data as the depth-th nested frame.  Returns the state and whether
\* an exception (RecursionError) leaves the frame.
LoadData(s, depth, strike) ==
    IF depth > MaxDepth
    THEN [st |-> s, raised |-> TRUE]
    ELSE
      LET backed == IF s.file.kind # "absent" THEN [s EXCEPT !.bak = s.file] ELSE s
      IN CASE backed.file.kind = "valid" ->
                [st |-> [backed EXCEPT
                            !.CREATION_DATE = Strptime(backed.file.metadata.creation_date),
                            !.COMPANY_NAME  = backed.file.metadata.company_name,
                            !.EMAIL_SUFFIX  = backed.file.metadata.email_suffix,
                            !.MAX_EMPLOYEES = backed.file.metadata.max_employees,
                            !.employees     = backed.file.employees],
                 raised |-> FALSE]
           [] backed.file.kind = "truncated" ->
                LET r == RestoreFromBackup(backed, depth, strike)
                IN IF r.result
                   THEN [st |-> r.st, raised |-> FALSE]
                   ELSE [st |-> InitializeEmpty(r.st), raised |-> FALSE]
           [] OTHER ->
                [st |-> InitializeEmpty(backed), raised |-> FALSE]

\* a top-level call of _load_data
_load_data(s, strike) == LoadData(s, 1, strike).st

\* a call of restore_from_backup from outside the class
restore_from_backup(s, strike) ==
    LET r == RestoreFromBackup(s, 0, strike)
    IN [st |-> r.st, result |-> r.result, save |-> "none"]

\* _update_file pickling an empty record mapping, as the initialisation does
_update_file_without_records(s, outcome) ==
    LET _data == Snapshot(generate_metadata(s), NoEmployees)
    IN IF outcome = "ok"
       THEN [st |-> [s EXCEPT !.file = _data, !.written = @ \cup {_data},
                              !.afterSave = _data],
             result |-> TRUE]
       ELSE [st |-> [s EXCEPT !.afterSave = s.file], result |-> FALSE]

\* _update_file copying the primary file to the backup before it writes
_update_file_backing_up(s, outcome) ==
    LET _data == Snapshot(generate_metadata(s), s.employees)
        backed == IF s.file.kind # "absent" THEN [s EXCEPT !.bak = s.file] ELSE s
    IN IF outcome = "ok"
       THEN [st |-> [backed EXCEPT !.file = _data, !.written = @ \cup {_data},
                                   !.afterSave = _data],
             result |-> TRUE]
       ELSE [st |-> [backed EXCEPT !.afterSave = s.file], result |-> FALSE]

\* How a call of _update_file ends.  The environment makes only this write
\* fail: the copies of shutil.copy2 and the write of the initialisation are
\* taken to succeed, so that _load_data raises nothing of its own.
\*   ok            the snapshot is written
\*   open_fail     open(path, 'wb') raises, the file is not touched
\*   dump_empty    open truncated the file and pk.dump raised before any byte
\*                 reached it
\*   dump_partial  pk.dump raised after part of the pickle was written
SaveOutcomes == {"ok", "open_fail", "dump_empty", "dump_partial"}

_update_file(s, outcome) ==
    LET _data == Snapshot(generate_metadata(s), s.employees)
    IN CASE outcome = "ok" ->
              [st |-> [s EXCEPT !.file = _data, !.written = @ \cup {_data},
                                !.afterSave = _data],
               result |-> TRUE]
         [] outcome = "open_fail" ->
              [st |-> [s EXCEPT !.afterSave = s.file], result |-> FALSE]
         [] outcome = "dump_empty" ->
              [st |-> [s EXCEPT !.file = FileOf("empty"), !.afterSave = FileOf("empty")],
               result |-> FALSE]
         [] OTHER ->
              [st |-> [s EXCEPT !.file = FileOf("truncated"),
                                !.afterSave = FileOf("truncated")],
               result |-> FALSE]

(* --------------------------- record generation ------------------------- *)
\* the {} returned when the id is already a key
EmptyRecord == [x \in {} |-> x]

SetMax(S) == CHOOSE x \in S : \A y \in S : y <= x

\* email.split(_surname)[-1].split('@')[0]
SuffixText(email, _surname) == SplitFirst(SplitLast(email, _surname), <<"@">>)

DotCom == <<".", "c", "o", "m">>

\* _generate_random_employee_data with the values drawn from names and random
\* given as arguments
_generate_random_employee_data(s, _id, _name, _surname, _department, _salary, _date) ==
    IF _id \in DOMAIN s.employees
    THEN EmptyRecord
    ELSE
      LET _existing_emails ==
              {s.employees[i].email : i \in
                  {j \in DOMAIN s.employees :
                      /\ Lower(s.employees[j].nombre) = Lower(_name)
                      /\ Lower(s.employees[j].apellido) = Lower(_surname)}}
          existing_suffixes ==
              {ParseInt(SuffixText(e, _surname)) : e \in
                  {x \in _existing_emails : IsDigit(SuffixText(x, _surname))}}
          highest_suffix ==
              IF existing_suffixes = {} THEN 0 ELSE SetMax(existing_suffixes)
          _email ==
              IF _existing_emails = {}
              THEN _name \o <<".">> \o _surname \o <<"@">> \o s.EMAIL_SUFFIX \o DotCom
              ELSE _name \o <<".">> \o _surname \o IntToStr(highest_suffix + 1)
                       \o <<"@">> \o s.EMAIL_SUFFIX \o DotCom
      IN [id           |-> _id,
          nombre       |-> _name,
          apellido     |-> _surname,
          departamento |-> IntToStr(_department),
          sueldo       |-> IntToStr(_salary) \o <<".", "0", "0">>,
          fecha        |-> Strftime(_date),
          email        |-> Lower(_email)]

(* ------------------------------ operations ----------------------------- *)
\* the tail shared by the mutating methods: save, and on failure reload
SaveOrReload(s, outcome, strike) ==
    LET u == _update_file(s, outcome)
    IN IF u.result
       THEN [st |-> u.st, result |-> TRUE, save |-> outcome]
       ELSE [st |-> _load_data(u.st, strike), result |-> FALSE, save |-> outcome]

\* a method that returns False before it reaches _update_file
Unsaved(s) == [st |-> s, result |-> FALSE, save |-> "none"]

\* add_employee_with_random_data refusing only past the capacity (> for >=)
add_employee_past_capacity(s, _id, _name, _surname, _department, _salary, _date, outcome, strike) ==
    IF Cardinality(DOMAIN s.employees) > s.MAX_EMPLOYEES
    THEN Unsaved(s)
    ELSE LET _employee == _generate_random_employee_data(
                              s, _id, _name, _surname, _department, _salary, _date)
             inserted == [i \in DOMAIN s.employees \cup {_id} |->
                              IF i = _id THEN _employee ELSE s.employees[i]]
         IN SaveOrReload([s EXCEPT !.employees = inserted], outcome, strike)

add_employee_with_random_data(s, _id, _name, _surname, _department, _salary, _date, outcome, strike) ==
    IF Cardinality(DOMAIN s.employees) >= s.MAX_EMPLOYEES
    THEN Unsaved(s)
    ELSE LET _employee == _generate_random_employee_data(
                              s, _id, _name, _surname, _department, _salary, _date)
             inserted == [i \in DOMAIN s.employees \cup {_id} |->
                              IF i = _id THEN _employee ELSE s.employees[i]]
         IN SaveOrReload([s EXCEPT !.employees = inserted], outcome, strike)

\* remove_employee without the test that the id is a key
remove_employee_unchecked(s, id_, outcome, strike) ==
    IF Cardinality(DOMAIN s.employees) = 0
    THEN Unsaved(s)
    ELSE LET removed == [i \in DOMAIN s.employees \ {id_} |-> s.employees[i]]
         IN SaveOrReload([s EXCEPT !.employees = removed], outcome, strike)

remove_employee(s, id_, outcome, strike) ==
    IF Cardinality(DOMAIN s.employees) = 0
    THEN Unsaved(s)
    ELSE IF id_ \in DOMAIN s.employees
         THEN LET removed == [i \in DOMAIN s.employees \ {id_} |-> s.employees[i]]
              IN SaveOrReload([s EXCEPT !.employees = removed], outcome, strike)
         ELSE Unsaved(s)

reset_employees(s, outcome, strike) ==
    SaveOrReload([s EXCEPT !.employees = NoEmployees], outcome, strike)

\* read_only_fields with email left out
read_only_fields_without_email == {"id", "fecha"}

read_only_fields == {"id", "fecha", "email"}

modify_employee_field(s, id_, field_name, field_value, outcome, strike) ==
    IF field_name \in read_only_fields
    THEN Unsaved(s)
    ELSE IF id_ \in DOMAIN s.employees
         THEN IF field_name \in DOMAIN s.employees[id_]
              THEN SaveOrReload(
                       [s EXCEPT !.employees[id_][field_name] = field_value],
                       outcome, strike)
              ELSE Unsaved(s)
         ELSE Unsaved(s)

(* ------------------------------- queries ------------------------------- *)
\* an optional value (a constructor argument, the record get_employee
\* returns): None, or Some(v) when there is one
None == <<>>
Some(v) == <<v>>

\* a method that only reads: the object and the files stay, and x is returned
Read(s, x) == [st |-> s, result |-> x, save |-> "none"]

\* get_employees: the mapping itself
get_employees(s) == Read(s, s.employees)

employee_exists(s, id_) == Read(s, id_ \in DOMAIN s.employees)

\* get_employee taking the record out of the mapping (pop for the subscript)
get_employee_popping(s, id_) ==
    IF id_ \in DOMAIN s.employees
    THEN [st |-> [s EXCEPT !.employees =
                      [i \in DOMAIN s.employees \ {id_} |-> s.employees[i]]],
          result |-> Some(s.employees[id_]), save |-> "none"]
    ELSE Read(s, None)

\* get_employee: the record, None for an id that is not a key
get_employee(s, id_) ==
    IF id_ \in DOMAIN s.employees
    THEN Read(s, Some(s.employees[id_]))
    ELSE Read(s, None)

\* the characters field values are written with, in code point order
CodePoints ==
    <<" ", "+", "-", ".">> \o Digits \o <<"@">> \o Uppers \o Lowers \o <<"e'", "u:">>

\* ord()
Ord(c) == CHOOSE i \in 1..Len(CodePoints) : CodePoints[i] = c

\* the values _cast_str returns: an int, a float (num / den), a bool (which
\* Python counts as the int 1 or 0) or the str it was given
IntValue(n) == [type |-> "int", num |-> n, den |-> 1, str |-> <<>>]
FloatValue(n, d) == [type |-> "float", num |-> n, den |-> d, str |-> <<>>]
BoolValue(b) == [type |-> "bool", num |-> IF b THEN 1 ELSE 0, den |-> 1, str |-> <<>>]
StrValue(s) == [type |-> "str", num |-> 0, den |-> 1, str |-> s]

\* a numeric literal without its sign, and the sign
Unsigned(s) == IF Len(s) > 0 /\ s[1] \in {"+", "-"} THEN Tail(s) ELSE s
SignOf(s) == IF Len(s) > 0 /\ s[1] = "-" THEN -1 ELSE 1

\* int(value) does not raise ValueError: an optional sign and digits (the
\* values of the model hold no blanks and no underscores)
IsIntLiteral(s) == IsDigit(Unsigned(s))

\* float(value) does not raise ValueError: an optional sign, digits and at
\* most one point, one digit at least (the values of the model are written
\* without exponent and are not inf or nan)
IsFloatLiteral(s) ==
    LET u == Unsigned(s)
        points == {i \in 1..Len(u) : u[i] = "."}
    IN /\ Cardinality(points) <= 1
       /\ Len(u) > Cardinality(points)
       /\ \A i \in (1..Len(u)) \ points : IsDigitChar(u[i])

RECURSIVE PowerOfTen(_)
PowerOfTen(k) == IF k = 0 THEN 1 ELSE 10 * PowerOfTen(k - 1)

\* float(value) as the fraction its decimal notation denotes
ParseFloat(s) ==
    LET u == Unsigned(s)
        p == IF \E i \in 1..Len(u) : u[i] = "."
             THEN CHOOSE i \in 1..Len(u) : u[i] = "."
             ELSE Len(u) + 1
        whole == SubSeq(u, 1, p - 1)
        frac  == SubSeq(u, p + 1, Len(u))
    IN FloatValue(SignOf(s) * ParseInt(whole \o frac), PowerOfTen(Len(frac)))

_cast_str(value) ==
    IF IsIntLiteral(value) THEN IntValue(SignOf(value) * ParseInt(Unsigned(value)))
    ELSE IF IsFloatLiteral(value) THEN ParseFloat(value)
    ELSE IF Lower(value) \in {<<"t","r","u","e">>, <<"f","a","l","s","e">>}
         THEN BoolValue(Lower(value) = <<"t","r","u","e">>)
         ELSE StrValue(value)

\* _cast_str(employee[field_name]): the id is a uuid.UUID, which int() turns
\* into its integer; the other fields are strings
CastField(employee, field_name) ==
    IF field_name = "id" THEN IntValue(employee.id)
    ELSE _cast_str(employee[field_name])

\* the keys of the operators dictionary
operators == {"==", "!=", "<", "<=", ">", ">="}

IsNumber(x) == x.type \in {"int", "float", "bool"}

\* Python's == between two cast values: numbers by value, strings by
\* content, a number and a string are never equal
ValueEq(a, b) ==
    IF IsNumber(a) /\ IsNumber(b) THEN a.num * b.den = b.num * a.den
    ELSE IF ~IsNumber(a) /\ ~IsNumber(b) THEN a.str = b.str
    ELSE FALSE

\* str < str: code point order, a proper prefix first
StrLess(a, b) ==
    \E k \in 1..Len(b) :
        /\ k <= Len(a) + 1
        /\ \A j \in 1..(k - 1) : a[j] = b[j]
        /\ k = Len(a) + 1 \/ Ord(a[k]) < Ord(b[k])

\* Python's < between two cast values of the same kind
ValueLess(a, b) ==
    IF IsNumber(a) THEN a.num * b.den < b.num * a.den
    ELSE StrLess(a.str, b.str)

\* the ordering operators raise TypeError between a number and a string
RaisesTypeError(operator_, a, b) ==
    operator_ \in {"<", "<=", ">", ">="} /\ IsNumber(a) # IsNumber(b)

\* operators[operator_](a, b)
comparison_function(operator_, a, b) ==
    CASE operator_ = "==" -> ValueEq(a, b)
      [] operator_ = "!=" -> ~ValueEq(a, b)
      [] operator_ = "<"  -> ValueLess(a, b)
      [] operator_ = "<=" -> ValueLess(a, b) \/ ValueEq(a, b)
      [] operator_ = ">"  -> ValueLess(b, a)
      [] OTHER            -> ValueLess(b, a) \/ ValueEq(a, b)

\* what get_by_field hands back: the mapping it returns, or the exception
\* that leaves it
Returned(matching_employees) == [raised |-> "", value |-> matching_employees]
Raised(exception) == [raised |-> exception, value |-> NoEmployees]

\* get_by_field comparing the stored value as it is, without _cast_str
get_by_field_uncast(s, field_name, operator_, field_value) ==
    IF operator_ \notin operators
    THEN Read(s, Returned(NoEmployees))
    ELSE IF ~\E i \in DOMAIN s.employees : field_name \in DOMAIN s.employees[i]
    THEN Read(s, Returned(NoEmployees))
    ELSE
      LET converted_field_value == _cast_str(field_value)
          ids == DOMAIN s.employees
      IN IF \E i \in ids : RaisesTypeError(operator_,
                   StrValue(s.employees[i][field_name]), converted_field_value)
         THEN Read(s, Raised("TypeError"))
         ELSE Read(s, Returned(
                 [i \in {j \in ids : comparison_function(operator_,
                             StrValue(s.employees[j][field_name]),
                             converted_field_value)} |-> s.employees[i]]))

\* the exception that leaves the comprehension is that of the first record
\* to raise one; the records of a store all have the same keys, so that it
\* is a KeyError for all of them or for none
get_by_field(s, field_name, operator_, field_value) ==
    IF operator_ \notin operators
    THEN Read(s, Returned(NoEmployees))
    ELSE IF ~\E i \in DOMAIN s.employees : field_name \in DOMAIN s.employees[i]
    THEN Read(s, Returned(NoEmployees))
    ELSE
      LET converted_field_value == _cast_str(field_value)
          ids == DOMAIN s.employees
      IN IF \E i \in ids : field_name \notin DOMAIN s.employees[i]
         THEN Read(s, Raised("KeyError"))
         ELSE IF \E i \in ids : RaisesTypeError(operator_,
                      CastField(s.employees[i], field_name), converted_field_value)
         THEN Read(s, Raised("TypeError"))
         ELSE Read(s, Returned(
                 [i \in {j \in ids : comparison_function(operator_,
                             CastField(s.employees[j], field_name),
                             converted_field_value)} |-> s.employees[i]]))

(* ------------------------------ constructor --------------------------- *)
DEFAULT_MAX_EMPLOYEES == 9999

DEFAULT_COMPANY_NAME == <<"C","o","m","p","a","n","y"," ","N","a","m","e">>

\* __init__
EmployeeDatabase(s, company_name, email_suffix, max_employees, strike) ==
    LET name == IF company_name = None THEN DEFAULT_COMPANY_NAME ELSE company_name[1]
        attrs == [s EXCEPT
                    !.COMPANY_NAME  = name,
                    !.CREATION_DATE = Now,
                    !.MAX_EMPLOYEES = IF max_employees = None
                                      THEN DEFAULT_MAX_EMPLOYEES ELSE max_employees[1],
                    !.EMAIL_SUFFIX  = IF email_suffix = None
                                      THEN normalize_string(name)
                                      ELSE normalize_string(email_suffix[1]),
                    !.employees     = NoEmployees]
    IN [st |-> _load_data(attrs, strike), result |-> TRUE, save |-> "none"]

(* ------------------------------- inputs -------------------------------- *)
\* names.get_first_name() and names.get_last_name() return capitalised names
FirstNames == {<<"J","o">>}
LastNames == {<<"D","o","e">>}
\* random.randint(1, 10)
Departments == {3}
\* random.randint(10000, 20000)
Salaries == {12000}
\* a birth date of somebody aged 18 to 65, the day within the month's length
BirthDates ==
    {[year |-> y, month |-> m, day |-> d, secs |-> 0] :
        y \in {2000} \cap ((Now.year - 65)..(Now.year - 18)),
        m \in {2} \cap (1..12),
        d \in {DaysInMonth(2000, 2)}}

CafeMuller == <<"C","a","f","e'"," ","M","u:","l","l","e","r">>
CompanyNameArgs == {Some(CafeMuller)}
EmailSuffixArgs == {None}
\* one less than the identifiers there are, so that the store fills up
MaxEmployeesArgs == {Some(MaxIds - 1)}

FieldNames == {"id", "fecha", "email", "departamento", "telefono"}
FieldValues == {<<"7">>}

\* the arguments of get_by_field: a field of numbers, a field of names and a
\* key no record has; the six operators and one that is none of them
QueryFieldNames == {"departamento", "nombre", "telefono"}
OperatorArgs == operators \cup {"=<"}
QueryValues == {<<"5">>, <<"1","0">>, <<"J","o">>}

\* the file a previous run of the program left behind: a store made for one
\* employee, and full
PreviousRun ==
    LET blank == [file |-> FileOf("absent"), bak |-> FileOf("absent"),
                  employees |-> NoEmployees, COMPANY_NAME |-> <<>>,
                  EMAIL_SUFFIX |-> <<>>, CREATION_DATE |-> Now, MAX_EMPLOYEES |-> 0,
                  restores |-> 0, written |-> {}, afterSave |-> FileOf("absent"),
                  restoreCalls |-> {}]
        built == EmployeeDatabase(blank, Some(<<"O","l","d">>), None, Some(1), "load").st
        old   == [built EXCEPT !.CREATION_DATE =
                      [year |-> 2025, month |-> 3, day |-> 9, secs |-> 0]]
        rec   == CHOOSE d \in BirthDates : TRUE
    IN add_employee_with_random_data(InitializeEmpty(old), 1, <<"A","l">>,
           <<"D","o","e">>, 3, 12000, rec, "ok", "load").st.file

InitialFiles ==
    {FileOf(k) : k \in {"absent", "empty", "truncated", "garbage", "badformat"}}
        \cup {PreviousRun}

InitialBackups == {FileOf("absent"), FileOf("truncated"), PreviousRun}

(* ------------------------------- state --------------------------------- *)
VARIABLES
    file,           \* content of FILE_PATH
    bak,            \* content of FILE_PATH + ".bak"
    pc,             \* "new" before __init__, "ready" after
    employees,      \* self.employees
    COMPANY_NAME, EMAIL_SUFFIX, CREATION_DATE, MAX_EMPLOYEES,
    used,           \* the identifiers that exist already (uuid4 repeats none)
    lastOp,         \* the last method called, with its arguments
    lastResult,     \* the truth value it returned (True for another result)
    lastRead,       \* what it returned when it is a read method
    saveOutcome,    \* how its _update_file call ended, "none" without one
    afterSave,      \* the primary file when its _update_file call returned
                    \* (the file on entry when it made none)
    restores,       \* copies of the backup over the primary file it made
    restoreCalls,   \* the calls of restore_from_backup made in it
    written         \* the snapshots it pickled into the primary file

vars == <<file, bak, pc, employees, COMPANY_NAME, EMAIL_SUFFIX, CREATION_DATE,
          MAX_EMPLOYEES, used, lastOp, lastResult, lastRead,
          saveOutcome, afterSave, restores, restoreCalls, written>>

\* what lastOp records of a call: the method and, for modify_employee_field,
\* the field name
Op(name, field) == [op |-> name, field |-> field]

\* what a read method returned, by the kind of result it has: the truth
\* value of employee_exists, the optional record of get_employee, the mapping
\* of get_employees and get_by_field, and the exception raised instead
Observed(exists, employee, mapping, raised) ==
    [exists |-> exists, employee |-> employee, employees |-> mapping, raised |-> raised]

\* the last method was not a read method
NoRead == Observed(FALSE, None, NoEmployees, "")

Init ==
    /\ file \in InitialFiles
    /\ bak \in InitialBackups
    /\ pc = "new"
    /\ employees = NoEmployees
    /\ COMPANY_NAME = <<>>
    /\ EMAIL_SUFFIX = <<>>
    /\ CREATION_DATE = Now
    /\ MAX_EMPLOYEES = 0
    /\ used = DOMAIN file.employees \cup DOMAIN bak.employees
    /\ lastOp = Op("none", "")
    /\ lastResult = FALSE
    /\ lastRead = NoRead
    /\ saveOutcome = "none"
    /\ afterSave = file
    /\ restores = 0
    /\ restoreCalls = {}
    /\ written = {}

\* the object and the files as the methods see them on entry
Self ==
    [file |-> file, bak |-> bak, employees |-> employees,
     COMPANY_NAME |-> COMPANY_NAME, EMAIL_SUFFIX |-> EMAIL_SUFFIX,
     CREATION_DATE |-> CREATION_DATE, MAX_EMPLOYEES |-> MAX_EMPLOYEES,
     restores |-> 0, restoreCalls |-> {}, written |-> {}, afterSave |-> file]

\* the state a method call leaves
Returning(r, op, read) ==
    /\ file' = r.st.file
    /\ bak' = r.st.bak
    /\ employees' = r.st.employees
    /\ COMPANY_NAME' = r.st.COMPANY_NAME
    /\ EMAIL_SUFFIX' = r.st.EMAIL_SUFFIX
    /\ CREATION_DATE' = r.st.CREATION_DATE
    /\ MAX_EMPLOYEES' = r.st.MAX_EMPLOYEES
    /\ lastOp' = op
    /\ lastResult' = r.result
    /\ lastRead' = read
    /\ saveOutcome' = r.save
    /\ afterSave' = r.st.afterSave
    /\ restores' = r.st.restores
    /\ restoreCalls' = r.st.restoreCalls
    /\ written' = r.st.written

\* the state a call of a method that returns True or False leaves
Return(r, op) == Returning(r, op, NoRead)

\* the state a call of a read method leaves
ReturnRead(r, op, read) == Returning([r EXCEPT !.result = TRUE], op, read)

\* the ways the environment may end the _update_file call of a method whose
\* run with a successful save is r: one when it never saves
Outcomes(r) ==
    IF r.save = "none" THEN {"ok"}
    ELSE SaveOutcomes

\* the places RecursionError may strike in the reload: they differ only when
\* the load finds a truncated file
StrikesOf(f) == IF f.kind = "truncated" THEN Strikes ELSE {"load"}

StrikesAfter(outcome) == IF outcome = "dump_partial" THEN Strikes ELSE {"load"}

(* ------------------------------- actions ------------------------------- *)
ConstructWith(company_name, email_suffix, max_employees) ==
    /\ pc = "new"
    /\ pc' = "ready"
    /\ used' = used
    /\ \E strike \in StrikesOf(file) :
          Return(EmployeeDatabase(Self, company_name, email_suffix, max_employees, strike),
                 Op("construct", ""))

Construct ==
    \E company_name \in CompanyNameArgs, email_suffix \in EmailSuffixArgs,
       max_employees \in MaxEmployeesArgs :
          ConstructWith(company_name, email_suffix, max_employees)

\* uuid.uuid4() handing out the same identifier again
uuid4_repeating == CHOOSE i \in IDs : \A j \in IDs : i <= j

\* uuid.uuid4(): an identifier that does not exist yet (identifiers are
\* opaque, so they are issued in order)
uuid4 == CHOOSE i \in IDs \ used : \A j \in IDs \ used : i <= j

AddWith(_name, _surname, _department, _salary, _date) ==
    /\ pc = "ready"
    /\ used # IDs
    /\ pc' = pc
    /\ \E outcome \in Outcomes(add_employee_with_random_data(Self, uuid4, _name,
                          _surname, _department, _salary, _date, "ok", "load")) :
       \E strike \in StrikesAfter(outcome) :
          LET r == add_employee_with_random_data(Self, uuid4, _name, _surname,
                       _department, _salary, _date, outcome, strike)
          IN /\ used' = IF r.save = "none" THEN used ELSE used \cup {uuid4}
             /\ Return(r, Op("add", ""))

AddEmployee ==
    \E _name \in FirstNames, _surname \in LastNames, _department \in Departments,
       _salary \in Salaries, _date \in BirthDates :
          AddWith(_name, _surname, _department, _salary, _date)

RemoveWith(id_) ==
    /\ pc = "ready"
    /\ UNCHANGED <<pc, used>>
    /\ \E outcome \in Outcomes(remove_employee(Self, id_, "ok", "load")) :
       \E strike \in StrikesAfter(outcome) :
          Return(remove_employee(Self, id_, outcome, strike), Op("remove", ""))

RemoveEmployee == \E id_ \in IDs : RemoveWith(id_)

ResetEmployees ==
    /\ pc = "ready"
    /\ UNCHANGED <<pc, used>>
    /\ \E outcome \in Outcomes(reset_employees(Self, "ok", "load")) :
       \E strike \in StrikesAfter(outcome) :
          Return(reset_employees(Self, outcome, strike), Op("reset", ""))

ModifyWith(id_, field_name, field_value) ==
    /\ pc = "ready"
    /\ UNCHANGED <<pc, used>>
    /\ \E outcome \in Outcomes(modify_employee_field(Self, id_, field_name,
                                   field_value, "ok", "load")) :
       \E strike \in StrikesAfter(outcome) :
          Return(modify_employee_field(Self, id_, field_name, field_value,
                                       outcome, strike),
                 Op("modify", field_name))

ModifyEmployeeField ==
    \E id_ \in IDs, field_name \in FieldNames, field_value \in FieldValues :
          ModifyWith(id_, field_name, field_value)

Next ==
    \/ Construct
    \/ AddEmployee
    \/ RemoveEmployee
    \/ ResetEmployees
    \/ ModifyEmployeeField

Spec == Init /\ [][Next]_vars

\* add_employee_with_random_data and remove_employee calls whose save succeeds
\* or is not attempted
AddSaved == AddEmployee /\ saveOutcome' \in {"none", "ok"}

RemoveSaved == RemoveEmployee /\ saveOutcome' \in {"none", "ok"}

NextAddRemove ==
    \/ Construct
    \/ AddSaved
    \/ RemoveSaved

\* the runs made of add_employee_with_random_data and remove_employee alone,
\* every save succeeding
SpecAddRemove == Init /\ [][NextAddRemove]_vars

(* ------------------------- restore_from_backup -------------------------- *)
\* restore_from_backup is a public method: a call of it from outside
RestoreBackup ==
    /\ pc = "ready"
    /\ UNCHANGED <<pc, used>>
    /\ \E strike \in StrikesOf(bak) :
          Return(restore_from_backup(Self, strike), Op("restore_from_backup", ""))

NextRestore ==
    \/ Next
    \/ RestoreBackup

\* the runs in which restore_from_backup is called from outside as well
SpecRestore == Init /\ [][NextRestore]_vars

(* ----------------------------- read methods ---------------------------- *)
GetEmployees ==
    /\ pc = "ready"
    /\ UNCHANGED <<pc, used>>
    /\ LET r == get_employees(Self)
       IN ReturnRead(r, Op("get_employees", ""), Observed(FALSE, None, r.result, ""))

EmployeeExistsWith(id_) ==
    /\ pc = "ready"
    /\ UNCHANGED <<pc, used>>
    /\ LET r == employee_exists(Self, id_)
       IN ReturnRead(r, Op("employee_exists", ""),
                     Observed(r.result, None, NoEmployees, ""))

EmployeeExists == \E id_ \in IDs : EmployeeExistsWith(id_)

GetEmployeeWith(id_) ==
    /\ pc = "ready"
    /\ UNCHANGED <<pc, used>>
    /\ LET r == get_employee(Self, id_)
       IN ReturnRead(r, Op("get_employee", ""),
                     Observed(FALSE, r.result, NoEmployees, ""))

GetEmployee == \E id_ \in IDs : GetEmployeeWith(id_)

GetByFieldWith(field_name, operator_, field_value) ==
    /\ pc = "ready"
    /\ UNCHANGED <<pc, used>>
    /\ LET r == get_by_field(Self, field_name, operator_, field_value)
       IN ReturnRead(r, Op("get_by_field", field_name),
                     Observed(FALSE, None, r.result.value, r.result.raised))

GetByField ==
    \E field_name \in QueryFieldNames, operator_ \in OperatorArgs,
       field_value \in QueryValues :
          GetByFieldWith(field_name, operator_, field_value)

\* reset_employees and modify_employee_field calls whose save succeeds or is
\* not attempted
ResetSaved == ResetEmployees /\ saveOutcome' \in {"none", "ok"}

ModifySaved == ModifyEmployeeField /\ saveOutcome' \in {"none", "ok"}

NextRead ==
    \/ Construct
    \/ AddSaved
    \/ RemoveSaved
    \/ ResetSaved
    \/ ModifySaved
    \/ GetEmployees
    \/ EmployeeExists
    \/ GetEmployee
    \/ GetByField

\* the runs in which every save succeeds and the read methods are called as
\* well
SpecRead == Init /\ [][NextRead]_vars

(* ------------------------------ properties ----------------------------- *)
Mutating == {"add", "remove", "reset", "modify"}

\* the step is a call whose _update_file returned False
SaveFailed == saveOutcome' \notin {"none", "ok"}

\* the step ran _load_data: the constructor, or the reload after a failed save
LoadRan == lastOp'.op = "construct" \/ SaveFailed

\* the primary file as that _load_data call found it
LoadedFrom == IF lastOp'.op = "construct" THEN file ELSE afterSave'

Corrupt == {"truncated", "garbage"}

\* C1: a mutating call whose save fails returns False with the in-memory
\* records equal to the records in the primary file, and both equal to the
\* records the primary file held before the call.
C1_FailedSaveRollsBack ==
    [][(lastOp'.op \in Mutating /\ SaveFailed /\ lastResult' = FALSE)
          => /\ file'.kind = "valid"
             /\ employees' = file'.employees
             /\ file'.employees = file.employees]_vars

\* C2: when _update_file returns False the primary file holds what it held
\* before the call.
C2_FailedSaveKeepsFile ==
    [][SaveFailed => afterSave' = file]_vars

\* C3: a _load_data call that finds the primary file corrupt and a valid
\* snapshot B in the backup ends with B's records in memory and B in the
\* primary file.
C3_LoadRecoversBackup ==
    [][(LoadRan /\ LoadedFrom.kind \in Corrupt /\ bak.kind = "valid")
          => /\ employees' = bak.employees
             /\ file' = bak]_vars

\* C4: a top-level _load_data call copies the backup over the primary file at
\* most once.
C4_SingleRestore == restores <= 1

\* C5: a _load_data call that finds the primary file corrupt and the backup
\* corrupt or absent ends with no records in memory and a fresh snapshot
\* without records in the primary file.
C5_UnrecoverableLoadIsEmpty ==
    [][(LoadRan /\ LoadedFrom.kind \in Corrupt
            /\ bak.kind \in Corrupt \cup {"absent", "empty"})
          => /\ employees' = NoEmployees
             /\ file'.kind = "valid"
             /\ file'.employees = NoEmployees]_vars

\* the records a new EmployeeDatabase on the same path loads
FreshLoad(s) ==
    EmployeeDatabase(s, Some(CafeMuller), None, Some(MaxIds - 1), "load").st.employees

\* C6: after a mutating call that returns True the primary file holds the
\* in-memory records; after modify_employee_field of a field that is not
\* read-only, get_employee and a fresh load both show the value as given.
C6_SuccessIsPersisted ==
    [][(lastOp'.op \in Mutating /\ lastResult' = TRUE)
          => /\ file'.kind = "valid"
             /\ file'.employees = employees'
             /\ FreshLoad(Self') = employees'
             /\ \A id_ \in IDs, f \in FieldNames \ read_only_fields, v \in FieldValues :
                   (lastOp'.field = f /\ ModifyWith(id_, f, v))
                      => /\ get_employee(Self', id_).result = Some([employees'[id_] EXCEPT ![f] = v])
                         /\ FreshLoad(Self')[id_][f] = v]_vars

C6_Witness ==
    /\ lastOp = Op("modify", "departamento")
    /\ lastResult = TRUE
    /\ \E id_ \in DOMAIN employees : employees[id_].departamento = <<"7">>
    /\ file.employees = employees

\* C7: every snapshot a call pickles into the primary file has
\* total_employees equal to the number of its records.
C7_TotalCountsRecords ==
    \A d \in written : d.metadata.total_employees = Cardinality(DOMAIN d.employees)

\* C8: the number of in-memory records never exceeds MAX_EMPLOYEES, and
\* add_employee_with_random_data on a full store returns False and leaves the
\* records, the primary file and the backup as they were.
C8_CapacityIsKept ==
    [][/\ pc' = "ready" => Cardinality(DOMAIN employees') <= MAX_EMPLOYEES'
       /\ (lastOp'.op = "add" /\ Cardinality(DOMAIN employees) >= MAX_EMPLOYEES)
             => /\ lastResult' = FALSE
                /\ UNCHANGED <<employees, file, bak>>]_vars

C8_Witness ==
    /\ lastOp.op = "add"
    /\ lastResult = FALSE
    /\ saveOutcome = "none"
    /\ Cardinality(DOMAIN employees) = MAX_EMPLOYEES
    /\ file.employees = employees

\* C9: modify_employee_field of id, fecha or email returns False for every id
\* and value and leaves the records, the primary file and the backup as they
\* were; no step changes the id, fecha or email of a record that stays.
C9_ReadOnlyFields ==
    [][/\ \A id_ \in IDs, f \in {"id", "fecha", "email"}, v \in FieldValues :
             (lastOp' = Op("modify", f) /\ ModifyWith(id_, f, v))
                => /\ lastResult' = FALSE
                   /\ UNCHANGED <<employees, file, bak>>
       /\ \A k \in DOMAIN employees \cap DOMAIN employees' :
             /\ employees'[k].id = employees[k].id
             /\ employees'[k].fecha = employees[k].fecha
             /\ employees'[k].email = employees[k].email]_vars

C9_Witness ==
    /\ lastOp = Op("modify", "email")
    /\ lastResult = FALSE
    /\ employees # NoEmployees

\* C10: no two records with the same first and last name (compared without
\* case) have the same email.
C10_EmailsDiffer ==
    \A i \in DOMAIN employees, j \in DOMAIN employees :
        (/\ i # j
         /\ Lower(employees[i].nombre) = Lower(employees[j].nombre)
         /\ Lower(employees[i].apellido) = Lower(employees[j].apellido))
            => employees[i].email # employees[j].email

\* C11: a call of get_employee, get_employees, employee_exists or get_by_field
\* leaves the in-memory records, the cached metadata, the primary file and
\* the backup as they were, whatever its arguments.
C11_ReadsChangeNothing ==
    [][lastOp'.op \in {"get_employee", "get_employees", "employee_exists", "get_by_field"}
          => UNCHANGED <<employees, COMPANY_NAME, EMAIL_SUFFIX, CREATION_DATE,
                         MAX_EMPLOYEES, file, bak>>]_vars

C11_Witness ==
    /\ lastOp.op = "get_employee"
    /\ employees # NoEmployees
    /\ \E id_ \in DOMAIN employees : lastRead.employee = Some(employees[id_])

\* C12: remove_employee of an id that is not a key (the store empty or not)
\* and modify_employee_field of an id that is not a key or of a field name
\* that is not a key of the record return False without a save or a reload:
\* the records, the primary file and the backup stay as they were.
C12_MissesChangeNothing ==
    [][/\ \A id_ \in IDs :
             (lastOp'.op = "remove" /\ id_ \notin DOMAIN employees /\ RemoveWith(id_))
                => /\ lastResult' = FALSE
                   /\ saveOutcome' = "none"
                   /\ restores' = 0
                   /\ UNCHANGED <<employees, file, bak>>
       /\ \A id_ \in IDs, f \in FieldNames, v \in FieldValues :
             (/\ lastOp' = Op("modify", f)
              /\ id_ \notin DOMAIN employees \/ f \notin DOMAIN employees[id_]
              /\ ModifyWith(id_, f, v))
                => /\ lastResult' = FALSE
                   /\ saveOutcome' = "none"
                   /\ restores' = 0
                   /\ UNCHANGED <<employees, file, bak>>]_vars

C12_Witness ==
    /\ lastOp.op = "remove"
    /\ lastResult = FALSE
    /\ saveOutcome = "none"
    /\ employees # NoEmployees
    /\ DOMAIN employees # IDs
    /\ bak # file

\* C13 as stated: a get_by_field call returns the empty mapping for an operator
\* that is none of the six or a field no record has, and otherwise returns
\* exactly the records whose cast field value stands in the relation to the
\* cast value.  (The state is the one the call returned in: lastRead is what
\* it returned, for each operator and value that make it return that, and
\* the records are those it read.)
C13_QueryReturnsMatches ==
    lastOp.op = "get_by_field" =>
        \A op \in OperatorArgs, v \in QueryValues :
            [raised |-> lastRead.raised, value |-> lastRead.employees]
                    = get_by_field(Self, lastOp.field, op, v).result
               => LET f == lastOp.field
                      has == {i \in DOMAIN employees : f \in DOMAIN employees[i]}
                      matching == {i \in has : comparison_function(op,
                                       CastField(employees[i], f), _cast_str(v))}
                  IN /\ lastRead.raised = ""
                     /\ IF op \notin operators \/ has = {}
                        THEN lastRead.employees = NoEmployees
                        ELSE /\ DOMAIN lastRead.employees = matching
                             /\ \A i \in matching :
                                    lastRead.employees[i] = employees[i]

\* C13, amended: as above, but between a number and a string the ordering
\* operators raise TypeError, so that the call returns no mapping when the
\* cast value and the cast field value of some record are one of each; and
\* on a field of integers compared with an integer the records returned are
\* those whose integer stands in the arithmetic relation.
C13_QueryReturnsMatchesOrRaises ==
    lastOp.op = "get_by_field" =>
        \A op \in OperatorArgs, v \in QueryValues :
            [raised |-> lastRead.raised, value |-> lastRead.employees]
                    = get_by_field(Self, lastOp.field, op, v).result
               => LET f == lastOp.field
                      has == {i \in DOMAIN employees : f \in DOMAIN employees[i]}
                      mixed == \E i \in has : RaisesTypeError(op,
                                       CastField(employees[i], f), _cast_str(v))
                      matching == {i \in has : comparison_function(op,
                                       CastField(employees[i], f), _cast_str(v))}
                      Related(a, b) ==
                          CASE op = "==" -> a = b
                            [] op = "!=" -> a # b
                            [] op = "<"  -> a < b
                            [] op = "<=" -> a <= b
                            [] op = ">"  -> a > b
                            [] OTHER     -> a >= b
                  IN IF op \notin operators \/ has = {}
                     THEN lastRead.raised = "" /\ lastRead.employees = NoEmployees
                     ELSE IF mixed
                     THEN lastRead.raised = "TypeError"
                     ELSE /\ lastRead.raised = ""
                          /\ DOMAIN lastRead.employees = matching
                          /\ \A i \in matching : lastRead.employees[i] = employees[i]
                          /\ (/\ f = "departamento"
                              /\ IsDigit(v)
                              /\ \A i \in has : IsDigit(employees[i][f]))
                                => matching = {i \in has :
                                       Related(ParseInt(employees[i][f]), ParseInt(v))}

\* a query on departamento that returns some of the records and not all
C13_Witness ==
    /\ lastOp = Op("get_by_field", "departamento")
    /\ lastRead.raised = ""
    /\ DOMAIN lastRead.employees # {}
    /\ DOMAIN lastRead.employees # DOMAIN employees
    /\ \A i \in DOMAIN lastRead.employees :
          /\ lastRead.employees[i] = employees[i]
          /\ ParseInt(employees[i].departamento) >= 5
    /\ \A i \in DOMAIN employees \ DOMAIN lastRead.employees :
          ParseInt(employees[i].departamento) < 5

\* C14: the snapshot S a successful save has written comes back from a load
\* followed by a save: loaded into the same object or into a new one made
\* with other arguments, and saved again without a mutation in between, the
\* primary file holds S again (records, company_name, email_suffix,
\* creation_date, max_employees), and total_employees of S is the number of
\* its records.
C14_RoundTrip ==
    [][(lastOp'.op \in Mutating /\ saveOutcome' = "ok")
          => LET S == file'
                 reloaded == _load_data(Self', "load")
                 fresh == EmployeeDatabase(Self', Some(<<"N","e","w">>), Some(<<"x">>),
                                           None, "load").st
             IN /\ S.kind = "valid"
                /\ S.metadata.total_employees = Cardinality(DOMAIN S.employees)
                /\ reloaded.employees = S.employees
                /\ _update_file(reloaded, "ok").result
                /\ _update_file(reloaded, "ok").st.file = S
                /\ fresh.employees = S.employees
                /\ _update_file(fresh, "ok").st.file = S]_vars

\* a save of a non-empty store made by an object whose creation date has a
\* time of day, which the snapshot does not keep
C14_Witness ==
    /\ lastOp.op \in Mutating
    /\ saveOutcome = "ok"
    /\ employees # NoEmployees
    /\ file.employees = employees
    /\ CREATION_DATE.secs # 0
    /\ file.metadata.creation_date = Strftime(CREATION_DATE)

\* C15: every call of restore_from_backup returns True exactly when the backup
\* file existed and its copy over the primary file was made; a call from
\* outside that finds no backup file returns False and leaves the primary
\* file and the in-memory records as they were, and one that finds a valid
\* snapshot B in the backup returns with B's records in memory.
C15_RestoreResult ==
    [][/\ \A c \in restoreCalls' : c.result = (c.existed /\ c.copied)
       /\ lastOp'.op = "restore_from_backup"
             => /\ bak.kind = "absent"
                      => lastResult' = FALSE /\ UNCHANGED <<file, employees>>
                /\ bak.kind = "valid"
                      => lastResult' = TRUE /\ employees' = bak.employees]_vars

\* C16 as stated: normalize_string("Cafe' Mu:ller") is "cafmller", the
\* accented letters contributing no character (the constructor applies it to
\* the company name to make the email suffix).
C16_AccentedLettersDropped ==
    (pc = "ready" /\ COMPANY_NAME = CafeMuller)
        => EMAIL_SUFFIX = <<"c","a","f","m","l","l","e","r">>

\* C16, amended: normalize_string("Cafe' Mu:ller") is "cafemuller", each
\* accented letter contributing its base letter, and the email suffix is made
\* of lowercase ASCII letters only.
C16_AccentedLettersFolded ==
    /\ (pc = "ready" /\ COMPANY_NAME = CafeMuller)
          => /\ EMAIL_SUFFIX = <<"c","a","f","e","m","u","l","l","e","r">>
             /\ EMAIL_SUFFIX = normalize_string(COMPANY_NAME)
    /\ pc = "ready"
          => \A i \in 1..Len(EMAIL_SUFFIX) : \E k \in 1..26 : EMAIL_SUFFIX[i] = Lowers[k]

C16_Witness ==
    /\ lastOp.op = "construct"
    /\ COMPANY_NAME = CafeMuller
    /\ Len(EMAIL_SUFFIX) = 10

\* C17: when add_employee_with_random_data stores a record and some stored
\* record has the same first and last name (compared without case), the
\* number that ends the local part of the new email is 1 + the greatest such
\* number among the emails of those records, 0 counting for an email
\* without one.
C17_SuffixIsMaxPlusOne ==
    [][\A _name \in FirstNames, _surname \in LastNames, _department \in Departments,
          _salary \in Salaries, _date \in BirthDates :
          (/\ lastOp'.op = "add"
           /\ lastResult' = TRUE
           /\ AddWith(_name, _surname, _department, _salary, _date))
             => LET same == {i \in DOMAIN employees :
                               /\ Lower(employees[i].nombre) = Lower(_name)
                               /\ Lower(employees[i].apellido) = Lower(_surname)}
                    Local(email) == SplitFirst(email, <<"@">>)
                    Start(l) == CHOOSE k \in 1..(Len(l) + 1) :
                                   /\ \A j \in k..Len(l) : IsDigitChar(l[j])
                                   /\ k = 1 \/ ~IsDigitChar(l[k - 1])
                    Number(email) == ParseInt(SubSeq(Local(email), Start(Local(email)),
                                                     Len(Local(email))))
                    greatest == SetMax({Number(employees[i].email) : i \in same})
                IN same # {}
                     => \A k \in DOMAIN employees' \ DOMAIN employees :
                           Local(employees'[k].email)
                              = Lower(_name) \o <<".">> \o Lower(_surname)
                                   \o IntToStr(greatest + 1)]_vars

C19_BackupWrittenByLoad ==
    [][/\ bak' # bak => LoadRan
       /\ (LoadRan /\ LoadedFrom.kind # "absent") => bak' = LoadedFrom
       /\ (LoadRan /\ LoadedFrom.kind = "absent") => bak' = bak
       /\ (lastOp'.op = "construct" /\ file.kind # "absent") => bak' = file
       /\ (lastOp'.op \in Mutating /\ lastResult' = TRUE)
             => saveOutcome' = "ok" /\ bak' = bak]_vars

\* a successful save after a construction that found a corrupt primary file:
\* the backup holds the corrupt content, not the snapshot just written
C19_Witness ==
    /\ lastOp.op \in Mutating
    /\ lastResult = TRUE
    /\ bak.kind \in Corrupt
    /\ file.kind = "valid"
    /\ employees # NoEmployees

\* C20: every entry of the in-memory mapping is a record with the seven
\* fields whose id is the key it is stored under, and a call of
\* add_employee_with_random_data that returns True has added one key that
\* was not there and left the records that were there as they were.
C20_RecordsAreComplete ==
    [][/\ \A k \in DOMAIN employees' :
             /\ DOMAIN employees'[k] = {"id", "nombre", "apellido", "departamento",
                                       "sueldo", "fecha", "email"}
             /\ employees'[k].id = k
       /\ (lastOp'.op = "add" /\ lastResult' = TRUE)
             => /\ DOMAIN employees \subseteq DOMAIN employees'
                /\ Cardinality(DOMAIN employees' \ DOMAIN employees) = 1
                /\ \A i \in DOMAIN employees : employees'[i] = employees[i]]_vars

C20_Witness ==
    /\ lastOp.op = "add"
    /\ lastResult = TRUE
    /\ Cardinality(DOMAIN employees) = MaxIds - 1
    /\ \A k \in DOMAIN employees : employees[k].id = k

====
